---- MODULE Spec2Model ----
(***************************************************************************)
(* Model of mobie/tables/default_table.py: compute_default_table and the   *)
(* helpers it drives (_compute_table_2d, _compute_table_3d, _table_impl,   *)
(* _n5_to_pandas, translate_coordinate_tuple, _remove_empty_columns).      *)
(*                                                                         *)
(* Numbers.  Coordinates are floats in the program.  They are modelled in  *)
(* fixed point, one unit = 1e-8 pixel, so that np.isclose(a, 0.) (absolute *)
(* tolerance 1e-8, relative part 0 against 0.) is |a| <= ATOL and a value  *)
(* that is close to zero without being zero exists.  One pixel is PX units.*)
(* Resolution values are positive integers (a factor, no unit); label ids  *)
(* and pixel counts are plain integers.                                    *)
(*                                                                         *)
(* Arrays.  A numpy array is a sequence of rows.  A slice of an array is a *)
(* view: translate_coordinate_tuple scales the memory it is given in place *)
(* and returns the reversed view of it.                                    *)
(***************************************************************************)
EXTENDS Integers, Sequences, FiniteSets, TLC

\* ------------------------------------------------------------------ bounds
MaxLabel == 2
MaxCoord == 1
MaxRank == 4
MaxResLen == 4
MaxRes == 2

\* np.isclose(anchors, 0.): |a - 0| <= atol + rtol * |0|, atol = 1e-8 = 1 unit
ATOL == 1
\* one pixel in units of 1e-8 pixel
PX == 100000000

VARIABLES
    entry,           \* the function the caller invoked
    pc,              \* position in the code
    error,           \* the exception that ended the call, "none" while running
    seg,             \* the segmentation volume at (seg_path, seg_key)
    resolution,      \* the resolution argument, a sequence
    correct_anchors, \* the correct_anchors argument
    ret,             \* luigi.build's return value, "unset" before it ran
    config_written,  \* tmp_folder/configs written by write_global_config
    n5_store,        \* tmp_folder/data.n5 [attributes]: <<>> or the raw records
    attributes,      \* the array _n5_to_pandas loaded from the store
    anchors_arg,     \* the anchors argument as the caller passed it
    anchors,         \* the caller's anchors array as it is in memory now
    loc_anchors,     \* _n5_to_pandas' local anchors: a view, NoView before it is set
    loc_minc,        \* _n5_to_pandas' local minc: a view
    loc_maxc,        \* _n5_to_pandas' local maxc: a view
    table,           \* the DataFrame in flight
    extracted,       \* the DataFrame as the extractor returned it
    table_folder,    \* the directory of table_path exists
    table_file,      \* the file at table_path: NoTable or what to_csv wrote
    n_writes,        \* number of to_csv calls on table_path
    calls            \* the functions and collaborators entered so far

vars == <<entry, pc, error, seg, resolution, correct_anchors, ret, config_written,
          n5_store, attributes, anchors_arg, anchors, loc_anchors, loc_minc,
          loc_maxc, table, extracted,
          table_folder, table_file, n_writes, calls>>

\* ----------------------------------------------------------- plain helpers
Reverse(s) == [i \in 1..Len(s) |-> s[Len(s) + 1 - i]]

Abs(x) == IF x < 0 THEN -x ELSE x

NoTable == [columns |-> <<>>, rows |-> <<>>]

None == [given |-> FALSE, arr |-> <<>>]

Labels == 0..MaxLabel

\* ---------------------------------------------------------------- inputs
\* A volume: its rank, the voxel count of every label (0 = label absent) and the
\* geometry of its objects.  Object L's bounding box starts at (lo + k - 1) pixels
\* on native axis k, ends at (hi + k - 1) and its centre is at (mid + k - 1), so
\* that the three axes differ and an axis swap shows.
Histograms ==
    {[L \in Labels |-> IF L \in S THEN L + 1 ELSE 0] : S \in SUBSET Labels}

Volumes ==
    [ndim : 1..MaxRank, hist : Histograms,
     lo : 0..MaxCoord, mid : 0..MaxCoord, hi : 0..MaxCoord]

\* The resolution vectors tried: every length up to MaxResLen, uniform (dr = 0)
\* or different on every one of three neighbouring axes (dr = 1).
Resolutions ==
    {[i \in 1..n |-> r0 + dr * (i % 3)] :
        n \in 1..MaxResLen, r0 \in 1..MaxRes, dr \in 0..1}

Coord(v, k) == (v + k - 1) * PX

MaxId(hist) ==
    IF \E L \in Labels : hist[L] > 0
    THEN CHOOSE L \in Labels : hist[L] > 0 /\ \A M \in Labels : hist[M] > 0 => M <= L
    ELSE 0

\* What the morphology workflow stores for a volume: one record per label id
\* 0..max id, [label_id, pixel_count, com(3), bbox-min(3), bbox-max(3)], native
\* (z, y, x) order, pixel units.
RawRecord(s, L) ==
    <<L, s.hist[L],
      Coord(s.mid, 1), Coord(s.mid, 2), Coord(s.mid, 3),
      Coord(s.lo, 1), Coord(s.lo, 2), Coord(s.lo, 3),
      Coord(s.hi, 1), Coord(s.hi, 2), Coord(s.hi, 3)>>

MorphologyWorkflow(s) == [i \in 1..(MaxId(s.hist) + 1) |-> RawRecord(s, i - 1)]

\* skimage.measure.regionprops(seg): one entry per label > 0 that has pixels, in
\* ascending label order; bbox = (min_y, min_x, max_y, max_x).
regionprops(s) ==
    LET present == SelectSeq([i \in 1..MaxLabel |-> i], LAMBDA L : s.hist[L] > 0)
    IN  [i \in 1..Len(present) |->
            [label |-> present[i],
             bbox |-> <<Coord(s.lo, 1), Coord(s.lo, 2), Coord(s.hi, 1), Coord(s.hi, 2)>>,
             area |-> s.hist[present[i]]]]

\* vigra.filters.eccentricityCenters(seg): the centre of every label, (y, x).
eccentricityCenters(s) == [L \in Labels |-> <<Coord(s.mid, 1), Coord(s.mid, 2)>>]

\* ------------------------------------------------------------ numpy views
\* A view of three neighbouring columns of an array: base names the array,
\* first its first column there, rev tells whether the view reads them reversed
\* (coords[:, ::-1]).
NoView == [base |-> "none", first |-> 0, rev |-> FALSE]

View(base, first) == [base |-> base, first |-> first, rev |-> FALSE]

BaseRows(v) == IF v.base = "attributes" THEN attributes ELSE anchors.arr

\* the rows one reads through view v, in the arrays as they are now
ViewRows(v) ==
    [i \in 1..Len(BaseRows(v)) |->
        LET r == SubSeq(BaseRows(v)[i], v.first, v.first + 2)
        IN  IF v.rev THEN Reverse(r) ELSE r]

\* the base array of view v after rows were written through v
Stored(v, rows) ==
    [i \in 1..Len(BaseRows(v)) |->
        [j \in 1..Len(BaseRows(v)[i]) |->
            IF j \in v.first..(v.first + 2)
            THEN IF v.rev THEN rows[i][v.first + 3 - j] ELSE rows[i][j - v.first + 1]
            ELSE BaseRows(v)[i][j]]]

\* ------------------------------------------------------- _n5_to_pandas code
col_names_3d ==
    <<"label_id", "anchor_x", "anchor_y", "anchor_z",
      "bb_min_x", "bb_min_y", "bb_min_z",
      "bb_max_x", "bb_max_y", "bb_max_z", "n_pixels">>

col_names_2d ==
    <<"label_id", "anchor_y", "anchor_x",
      "bb_min_y", "bb_min_x", "bb_max_y", "bb_max_x", "n_pixels">>

\* res_in_micron = resolution[::-1]
res_in_micron_unreversed(res) == res

res_in_micron(res) == Reverse(res)

\* translate_coordinate_tuple(coords): coords = coords[:, ::-1] is the reversed
\* view of the same memory; the loop scales column d of that view in place, for
\* d = 0, 1, 2, and stops with IndexError at the first d res_in_micron lacks.
\* view: the view returned; rows: what it reads after the loop; ok: no IndexError.
translate_coordinate_tuple(coords, rim) ==
    LET flipped == [coords EXCEPT !.rev = ~coords.rev]
        before == ViewRows(flipped)
    IN  [view |-> flipped,
         rows |-> [i \in 1..Len(before) |->
                      [d \in 1..3 |-> IF d <= Len(rim)
                                         THEN before[i][d] * rim[d]
                                         ELSE before[i][d]]],
         ok |-> Len(rim) >= 3]

\* com = attributes[:, 2:5]; minc and maxc are attributes[:, 5:8] and [:, 8:11]
com == View("attributes", 3)

minc_slice == View("attributes", 6)

maxc_slice == View("attributes", 9)

\* anchors is None: anchors = translate_coordinate_tuple(com)
anchors_from_com_untranslated(c, rim) ==
    [view |-> c, rows |-> ViewRows(c), ok |-> TRUE]

anchors_from_com(c, rim) == translate_coordinate_tuple(c, rim)

\* np.isclose(a, 0.)
isclose0(a) == Abs(a) <= ATOL

\* invalid_anchors = np.isclose(anchors, 0.).all(axis=1), for one row
invalid_anchor_any(a) == \E d \in 1..Len(a) : isclose0(a[d])

invalid_anchor(a) == \A d \in 1..Len(a) : isclose0(a[d])

\* anchors[invalid_anchors] = com[invalid_anchors]
merged_anchors(arr, comrows) ==
    [i \in 1..Len(arr) |-> IF invalid_anchor(arr[i]) THEN comrows[i] ELSE arr[i]]

\* mobie/tables/utils.py, remove_background_label_row: drops the row of label 0
remove_background_label_row(df) ==
    [df EXCEPT !.rows = SelectSeq(df.rows, LAMBDA r : r[1] # 0)]

\* table[table.n_pixels != 0]
ColIndex(df, name) == CHOOSE i \in 1..Len(df.columns) : df.columns[i] = name

remove_empty_columns_kept_all(df) == df

remove_empty_columns(df) ==
    [df EXCEPT !.rows = SelectSeq(df.rows, LAMBDA r : r[ColIndex(df, "n_pixels")] # 0)]

\* if ndim == 2: _compute_table_2d else: _compute_table_3d
extractor_only_3d(ndim) ==
    IF ndim = 3 THEN "_compute_table_3d" ELSE "_compute_table_2d"

extractor(ndim) ==
    IF ndim = 2 THEN "_compute_table_2d" ELSE "_compute_table_3d"

\* if not ret: raise RuntimeError
workflow_failed_ignored(r) == FALSE

workflow_failed(r) == ~r

\* if correct_anchors: raise NotImplementedError
anchor_correction_raises_never(flag) == FALSE

anchor_correction_raises_inverted(flag) == ~flag

anchor_correction_raises(flag) == flag

\* the rows of _compute_table_2d's tab
table_2d_rows(s, res) ==
    LET props == regionprops(s)
        centers == eccentricityCenters(s)
    IN  [i \in 1..Len(props) |->
            LET p == props[i]
            IN  <<p.label>>
                \o [k \in 1..2 |-> centers[p.label][k] * res[k]]
                \o [k \in 1..2 |-> p.bbox[k] * res[k]]
                \o [k \in 1..2 |-> p.bbox[2 + k] * res[k]]
                \o <<p.area>>]

\* ------------------------------------------------------------------- state
AnchorPoints ==
    {<<0, 0, 0>>, <<ATOL, 0, ATOL>>, <<0, 0, PX>>, <<PX, 2 * PX, 3 * PX>>}

\* The anchors arrays tried for n records: rows alternate between two points;
\* one array is a row short.
AnchorArrays(n) ==
    {[given |-> TRUE, arr |-> [i \in 1..n |-> IF i % 2 = 1 THEN a ELSE b]] :
        a \in AnchorPoints, b \in AnchorPoints}
    \cup {[given |-> TRUE, arr |-> [i \in 1..(n - 1) |-> <<PX, PX, PX>>]]}

InitCommon ==
    /\ error = "none"
    /\ seg \in Volumes
    /\ resolution \in Resolutions
    /\ ret = FALSE
    /\ config_written = FALSE
    /\ attributes = <<>>
    /\ loc_anchors = NoView
    /\ loc_minc = NoView
    /\ loc_maxc = NoView
    /\ table = NoTable
    /\ extracted = NoTable
    /\ table_folder = FALSE
    /\ table_file = NoTable
    /\ n_writes = 0
    /\ calls = {}

\* a call of compute_default_table(seg_path, seg_key, table_path, resolution, ...)
Init ==
    /\ InitCommon
    /\ entry = "compute_default_table"
    /\ pc = entry
    /\ correct_anchors \in BOOLEAN
    /\ n5_store = <<>>
    /\ anchors_arg = None
    /\ anchors = anchors_arg

\* a call of _n5_to_pandas(input_path, input_key, resolution, anchors) on a store
\* the workflow has written
InitN5 ==
    /\ InitCommon
    /\ entry = "_n5_to_pandas"
    /\ pc = entry
    /\ seg.ndim = 3
    /\ correct_anchors = FALSE
    /\ n5_store = MorphologyWorkflow(seg)
    /\ anchors_arg \in {None} \cup AnchorArrays(Len(n5_store))
    /\ anchors = anchors_arg

inputs == <<entry, seg, resolution, correct_anchors, anchors_arg>>

files == <<table_folder, table_file, n_writes>>

locals == <<loc_anchors, loc_minc, loc_maxc>>

Raise(e) == pc' = "failed" /\ error' = e

\* ------------------------------------------------- compute_default_table
\* with open_file(seg_path) as f: ndim = f[seg_key].ndim; if ndim == 2: ... else: ...
Dispatch ==
    /\ pc = "compute_default_table"
    /\ pc' = extractor(seg.ndim)
    /\ calls' = calls \cup {"compute_default_table"}
    /\ UNCHANGED <<inputs, files, locals, error, ret, config_written, n5_store,
                   attributes, anchors, table, extracted>>

ComputeTable2d ==
    /\ pc = "_compute_table_2d"
    /\ calls' = calls \cup {"_compute_table_2d"}
    /\ IF ~(Len(resolution) = seg.ndim /\ seg.ndim = 2)
       THEN Raise("AssertionError") /\ UNCHANGED <<table, extracted>>
       ELSE IF Len(regionprops(seg)) = 0
       THEN \* np.array([]) has shape (0,): tab.shape[1] fails
            Raise("IndexError") /\ UNCHANGED <<table, extracted>>
       ELSE /\ table' = [columns |-> col_names_2d,
                         rows |-> table_2d_rows(seg, resolution)]
            /\ extracted' = table'
            /\ pc' = "_remove_empty_columns"
            /\ UNCHANGED error
    /\ UNCHANGED <<inputs, files, locals, ret, config_written, n5_store,
                   attributes, anchors>>

\* _compute_table_3d: write_global_config(os.path.join(tmp_folder, "configs"))
WriteGlobalConfig ==
    /\ pc = "_compute_table_3d"
    /\ calls' = calls \cup {"_compute_table_3d"}
    /\ config_written' = TRUE
    /\ pc' = "_table_impl"
    /\ UNCHANGED <<inputs, files, locals, error, ret, n5_store, attributes,
                   anchors, table, extracted>>

\* _table_impl: ret = luigi.build([t]); if not ret: raise RuntimeError
TableImpl ==
    /\ pc = "_table_impl"
    /\ calls' = calls \cup {"MorphologyWorkflow"}
    /\ \E r \in BOOLEAN :
          /\ ret' = r
          /\ n5_store' = IF r THEN MorphologyWorkflow(seg) ELSE <<>>
          /\ IF workflow_failed(r)
             THEN Raise("RuntimeError")
             ELSE pc' = "anchor_correction" /\ UNCHANGED error
    /\ UNCHANGED <<inputs, files, locals, config_written, attributes, anchors,
                   table, extracted>>

\* _compute_table_3d: if correct_anchors: raise NotImplementedError else: anchors = None
AnchorCorrection ==
    /\ pc = "anchor_correction"
    /\ IF anchor_correction_raises(correct_anchors)
       THEN Raise("NotImplementedError") /\ UNCHANGED anchors
       ELSE pc' = "_n5_to_pandas" /\ anchors' = None /\ UNCHANGED error
    /\ UNCHANGED <<inputs, files, locals, ret, config_written, n5_store,
                   attributes, table, extracted, calls>>

\* ------------------------------------------------------------ _n5_to_pandas
\* attributes = f[input_key][:]
N5Load ==
    /\ pc = "_n5_to_pandas"
    /\ calls' = calls \cup {"_n5_to_pandas"}
    /\ attributes' = n5_store
    /\ pc' = "n5_anchors"
    /\ UNCHANGED <<inputs, files, locals, error, ret, config_written, n5_store,
                   anchors, table, extracted>>

\* if anchors is None: anchors = translate_coordinate_tuple(com)
N5AnchorsFromCom ==
    /\ pc = "n5_anchors"
    /\ ~anchors.given
    /\ LET t == anchors_from_com(com, res_in_micron(resolution))
       IN  /\ attributes' = Stored(t.view, t.rows)
           /\ loc_anchors' = t.view
           /\ IF t.ok THEN pc' = "n5_minc" /\ UNCHANGED error
                      ELSE Raise("IndexError")
    /\ UNCHANGED <<inputs, files, loc_minc, loc_maxc, ret, config_written,
                   n5_store, anchors, table, extracted, calls>>

\* else: the two asserts, then anchors[invalid_anchors] = com[invalid_anchors]
N5AnchorsMerge ==
    /\ pc = "n5_anchors"
    /\ anchors.given
    /\ IF ~(/\ Len(anchors.arr) = Len(attributes)
            /\ \A i \in 1..Len(anchors.arr) : Len(anchors.arr[i]) = 3)
       THEN Raise("AssertionError") /\ UNCHANGED anchors
       ELSE /\ anchors' = [anchors EXCEPT !.arr = merged_anchors(@, ViewRows(com))]
            /\ pc' = "n5_anchors_translate"
            /\ UNCHANGED error
    /\ UNCHANGED <<inputs, files, locals, ret, config_written, n5_store,
                   attributes, table, extracted, calls>>

\* anchors = translate_coordinate_tuple(anchors)
N5AnchorsTranslate ==
    /\ pc = "n5_anchors_translate"
    /\ LET t == translate_coordinate_tuple(View("anchors", 1), res_in_micron(resolution))
       IN  /\ anchors' = [anchors EXCEPT !.arr = Stored(t.view, t.rows)]
           /\ loc_anchors' = t.view
           /\ IF t.ok THEN pc' = "n5_minc" /\ UNCHANGED error
                      ELSE Raise("IndexError")
    /\ UNCHANGED <<inputs, files, loc_minc, loc_maxc, ret, config_written,
                   n5_store, attributes, table, extracted, calls>>

\* minc = translate_coordinate_tuple(attributes[:, 5:8])
N5Minc ==
    /\ pc = "n5_minc"
    /\ LET t == translate_coordinate_tuple(minc_slice, res_in_micron(resolution))
       IN  /\ attributes' = Stored(t.view, t.rows)
           /\ loc_minc' = t.view
           /\ IF t.ok THEN pc' = "n5_maxc" /\ UNCHANGED error
                      ELSE Raise("IndexError")
    /\ UNCHANGED <<inputs, files, loc_anchors, loc_maxc, ret, config_written,
                   n5_store, anchors, table, extracted, calls>>

\* maxc = translate_coordinate_tuple(attributes[:, 8:11])
N5Maxc ==
    /\ pc = "n5_maxc"
    /\ LET t == translate_coordinate_tuple(maxc_slice, res_in_micron(resolution))
       IN  /\ attributes' = Stored(t.view, t.rows)
           /\ loc_maxc' = t.view
           /\ IF t.ok THEN pc' = "n5_concat" /\ UNCHANGED error
                      ELSE Raise("IndexError")
    /\ UNCHANGED <<inputs, files, loc_anchors, loc_minc, ret, config_written,
                   n5_store, anchors, table, extracted, calls>>

\* data = np.concatenate([label_ids, anchors, minc, maxc, attributes[:, 1:2]], axis=1)
\* df = remove_background_label_row(pd.DataFrame(data, columns=col_names)); return df
N5Assemble ==
    /\ pc = "n5_concat"
    /\ LET data == [i \in 1..Len(attributes) |->
                       <<attributes[i][1]>>
                       \o ViewRows(loc_anchors)[i]
                       \o ViewRows(loc_minc)[i]
                       \o ViewRows(loc_maxc)[i]
                       \o <<attributes[i][2]>>]
           df == remove_background_label_row([columns |-> col_names_3d, rows |-> data])
       IN  /\ table' = df
           /\ extracted' = df
    /\ pc' = IF entry = "compute_default_table" THEN "_remove_empty_columns"
                                                ELSE "returned"
    /\ UNCHANGED <<inputs, files, locals, error, ret, config_written, n5_store,
                   attributes, anchors, calls>>

\* ------------------------------------- compute_default_table, after extraction
\* table = _remove_empty_columns(table)
RemoveEmptyColumns ==
    /\ pc = "_remove_empty_columns"
    /\ calls' = calls \cup {"_remove_empty_columns"}
    /\ table' = remove_empty_columns(table)
    /\ pc' = "to_csv"
    /\ UNCHANGED <<inputs, files, locals, error, ret, config_written, n5_store,
                   attributes, anchors, extracted>>

\* os.makedirs(table_folder, exist_ok=True); table.to_csv(table_path, ...)
WriteCsv ==
    /\ pc = "to_csv"
    /\ calls' = calls \cup {"to_csv"}
    /\ table_folder' = TRUE
    /\ table_file' = table
    /\ n_writes' = n_writes + 1
    /\ pc' = "done"
    /\ UNCHANGED <<inputs, locals, error, ret, config_written, n5_store,
                   attributes, anchors, table, extracted>>

Next ==
    \/ Dispatch
    \/ ComputeTable2d
    \/ WriteGlobalConfig
    \/ TableImpl
    \/ AnchorCorrection
    \/ N5Load
    \/ N5AnchorsFromCom
    \/ N5Minc
    \/ N5Maxc
    \/ N5Assemble
    \/ RemoveEmptyColumns
    \/ WriteCsv

Spec == Init /\ [][Next]_vars

NextN5 ==
    \/ N5Load
    \/ N5AnchorsFromCom
    \/ N5AnchorsMerge
    \/ N5AnchorsTranslate
    \/ N5Minc
    \/ N5Maxc
    \/ N5Assemble

SpecN5 == InitN5 /\ [][NextN5]_vars

\* =================================================================== claims
Terminal == pc \in {"done", "failed", "returned"}

NothingWritten == table_file = NoTable /\ ~table_folder /\ n_writes = 0

InN5 == pc \in {"_n5_to_pandas", "n5_anchors", "n5_anchors_translate",
                "n5_minc", "n5_maxc", "n5_concat"}

\* the rows of df whose last column (n_pixels) is not 0
NonEmptyRows(df) == SelectSeq(df.rows, LAMBDA r : r[Len(r)] # 0)

\* C1: on a 3-dimensional input whose morphology workflow returns a non-success
\* status the call has ended in RuntimeError and the table path and its directory
\* are untouched; on a 3-dimensional input a write has happened only after the
\* workflow returned success and the table was extracted and filtered.
C1_WorkflowFailureWritesNothing ==
    seg.ndim = 3 =>
        /\ ("MorphologyWorkflow" \in calls /\ ~ret) =>
               (pc = "failed" /\ error = "RuntimeError" /\ NothingWritten)
        /\ ~NothingWritten =>
               /\ ret
               /\ {"MorphologyWorkflow", "_n5_to_pandas", "_remove_empty_columns"}
                      \subseteq calls
               /\ table_file.rows = NonEmptyRows(extracted)

C1_Witness ==
    /\ seg.ndim = 3
    /\ "MorphologyWorkflow" \in calls
    /\ ~ret
    /\ pc = "failed"
    /\ error = "RuntimeError"

\* C2 as stated: on a 3-dimensional input with correct_anchors=True the call ends
\* with the "not implemented" error whatever the workflow returned, and writes no
\* table.
C2_AlwaysNotImplemented ==
    (seg.ndim = 3 /\ correct_anchors /\ Terminal) =>
        (pc = "failed" /\ error = "NotImplementedError" /\ NothingWritten)

\* C2 amended: on a 3-dimensional input with correct_anchors=True the call never
\* gets past the anchor-correction check and writes no table; it ends with the
\* "not implemented" error when the workflow returned success and with the
\* workflow's RuntimeError when it did not.
C2_FailsBeforeExtraction ==
    (seg.ndim = 3 /\ correct_anchors) =>
        /\ NothingWritten
        /\ pc \in {"compute_default_table", "_compute_table_3d", "_table_impl",
                   "anchor_correction", "failed"}
        /\ pc = "failed" =>
               error = (IF ret THEN "NotImplementedError" ELSE "RuntimeError")

C2_Witness ==
    /\ seg.ndim = 3
    /\ correct_anchors
    /\ ret
    /\ pc = "failed"
    /\ error = "NotImplementedError"

\* C3 as stated: with correct_anchors=True, for inputs of any dimensionality, the
\* call ends in a fatal error and no table is written.
C3_NeverDegrades ==
    correct_anchors => (pc # "done" /\ NothingWritten)

\* C3 amended: with correct_anchors=True on an input that is not 2-dimensional the
\* call never reaches extraction and writes no table; on a 2-dimensional input the
\* flag is not read, and a successful call writes the table of eccentricity-centre
\* anchors that correct_anchors=False writes.
C3_NeverDegradesOutside2d ==
    correct_anchors =>
        /\ seg.ndim # 2 => (NothingWritten /\ pc # "done" /\ ~InN5
                            /\ "_n5_to_pandas" \notin calls)
        /\ (seg.ndim = 2 /\ pc = "done") =>
               /\ calls \cap {"_compute_table_3d", "MorphologyWorkflow"} = {}
               /\ table_file.columns = col_names_2d
               /\ \A i \in 1..Len(table_file.rows) :
                     LET r == table_file.rows[i]
                         c == eccentricityCenters(seg)[r[1]]
                     IN  r[2] = c[1] * resolution[1] /\ r[3] = c[2] * resolution[2]

C3_Witness ==
    /\ correct_anchors
    /\ seg.ndim # 2
    /\ config_written
    /\ pc = "failed"
    /\ error = "NotImplementedError"

\* C4: after a successful call the label_id values of the written table are the
\* labels > 0 present in the volume, one row each; no row has label_id 0, none has
\* n_pixels 0, none belongs to an absent label.
C4_RowsAreThePresentLabels ==
    pc = "done" =>
        LET rows == table_file.rows
            np == ColIndex(table_file, "n_pixels")
        IN  /\ {rows[i][1] : i \in 1..Len(rows)}
                   = {L \in Labels : L # 0 /\ seg.hist[L] > 0}
            /\ \A i, j \in 1..Len(rows) : rows[i][1] = rows[j][1] => i = j
            /\ \A i \in 1..Len(rows) : rows[i][1] # 0 /\ rows[i][np] # 0

C4_Witness ==
    /\ pc = "done"
    /\ seg.ndim = 3
    /\ seg.hist[0] > 0
    /\ seg.hist[1] = 0
    /\ seg.hist[2] > 0
    /\ Len(table_file.rows) = 1

\* C5: a resolution whose length differs from the rank of a 2- or 3-dimensional
\* segmentation makes the call fail, and no table is written.
C5_ResolutionMismatchIsFatal ==
    (seg.ndim \in {2, 3} /\ Len(resolution) # seg.ndim) =>
        (pc # "done" /\ NothingWritten)

\* C6 as stated: rank 2 goes to the 2D extractor and never runs the workflow, rank
\* 3 goes to the 3D extractor, any other rank enters neither extractor and writes
\* no table; a write follows zero-pixel row removal and happens once.
C6_RoutesStrictlyByRank ==
    /\ seg.ndim = 2 =>
           (calls \cap {"_compute_table_3d", "MorphologyWorkflow"} = {}
            /\ pc # "_compute_table_3d")
    /\ seg.ndim = 3 => ("_compute_table_2d" \notin calls /\ pc # "_compute_table_2d")
    /\ seg.ndim \notin {2, 3} =>
           /\ calls \cap {"_compute_table_2d", "_compute_table_3d",
                          "MorphologyWorkflow"} = {}
           /\ pc \notin {"_compute_table_2d", "_compute_table_3d"}
           /\ NothingWritten
    /\ n_writes <= 1
    /\ n_writes = 1 =>
           ("_remove_empty_columns" \in calls
            /\ table_file.rows = NonEmptyRows(extracted))

\* C6 amended: rank 2 goes to the 2D extractor and never runs the workflow; every
\* other rank, 3 or not, goes to the 3D extractor (the dispatcher has no guard for
\* the other ranks); a write follows zero-pixel row removal and happens once.
C6_RoutesRank2Or3dPath ==
    /\ seg.ndim = 2 =>
           /\ calls \cap {"_compute_table_3d", "MorphologyWorkflow"} = {}
           /\ pc # "_compute_table_3d"
           /\ pc # "compute_default_table" =>
                  (pc = "_compute_table_2d" \/ "_compute_table_2d" \in calls)
    /\ seg.ndim # 2 =>
           /\ "_compute_table_2d" \notin calls
           /\ pc # "_compute_table_2d"
           /\ pc # "compute_default_table" =>
                  (pc = "_compute_table_3d" \/ "_compute_table_3d" \in calls)
    /\ n_writes <= 1
    /\ n_writes = 1 =>
           ("_remove_empty_columns" \in calls
            /\ table_file.rows = NonEmptyRows(extracted))

C6_Witness ==
    /\ seg.ndim \notin {2, 3}
    /\ {"_compute_table_3d", "MorphologyWorkflow"} \subseteq calls
    /\ "_compute_table_2d" \notin calls

\* the raw record the workflow stored for the label of output row r
RawOf(r) == n5_store[r[1] + 1]

\* C7: with a resolution in native order and of the segmentation's rank, every
\* coordinate column named for an axis holds the native pixel coordinate on that
\* axis times the resolution of that axis: the 3D columns run x, y, z (native
\* columns 3, 2, 1), the 2D columns y, x (native 1, 2); label_id and n_pixels are
\* the raw values.
C7_ColumnsScaledPerAxis ==
    (pc = "done" /\ Len(resolution) = seg.ndim) =>
        /\ seg.ndim = 3 =>
              /\ table_file.columns = col_names_3d
              /\ \A i \in 1..Len(table_file.rows) :
                    LET r == table_file.rows[i]
                        raw == RawOf(r)
                    IN  /\ r[1] = raw[1]
                        /\ r[11] = raw[2]
                        /\ \A b \in 0..2 :
                              /\ r[3 * b + 2] = raw[3 * b + 5] * resolution[3]
                              /\ r[3 * b + 3] = raw[3 * b + 4] * resolution[2]
                              /\ r[3 * b + 4] = raw[3 * b + 3] * resolution[1]
        /\ seg.ndim = 2 =>
              /\ table_file.columns = col_names_2d
              /\ \A i \in 1..Len(table_file.rows) :
                    LET r == table_file.rows[i]
                        c == eccentricityCenters(seg)[r[1]]
                        p == CHOOSE q \in {regionprops(seg)[j] :
                                              j \in 1..Len(regionprops(seg))} :
                                 q.label = r[1]
                    IN  /\ r[8] = p.area
                        /\ r[2] = c[1] * resolution[1]
                        /\ r[3] = c[2] * resolution[2]
                        /\ r[4] = p.bbox[1] * resolution[1]
                        /\ r[5] = p.bbox[2] * resolution[2]
                        /\ r[6] = p.bbox[3] * resolution[1]
                        /\ r[7] = p.bbox[4] * resolution[2]

C7_Witness ==
    /\ pc = "done"
    /\ seg.ndim = 3
    /\ Len(resolution) = 3
    /\ resolution[1] # resolution[3]
    /\ Len(table_file.rows) = 2
    /\ seg.mid > 0

\* C8: in every row the 3D extractor builds from the centre of mass, bb_min <=
\* anchor <= bb_max on each axis, when the raw record has bbox-min <= centre of
\* mass <= bbox-max on each native axis and every resolution value is positive.
C8_AnchorInsideBox ==
    ("_n5_to_pandas" \in calls /\ ~anchors_arg.given) =>
        \A tab \in {extracted, table_file} :
            \A i \in 1..Len(tab.rows) :
                LET r == tab.rows[i]
                    raw == RawOf(r)
                IN  (/\ \A k \in 1..3 : raw[5 + k] <= raw[2 + k] /\ raw[2 + k] <= raw[8 + k]
                     /\ \A k \in 1..Len(resolution) : resolution[k] > 0)
                    => \A d \in 1..3 : r[4 + d] <= r[1 + d] /\ r[1 + d] <= r[7 + d]

C8_Witness ==
    /\ pc = "done"
    /\ seg.ndim = 3
    /\ seg.lo <= seg.mid
    /\ seg.mid <= seg.hi
    /\ seg.lo < seg.hi
    /\ Len(table_file.rows) > 0
    /\ resolution[1] # resolution[2]

\* C9: a call of translate_coordinate_tuple (here with a resolution of length 3,
\* so that it returns) leaves the array the batch was sliced from and the
\* caller's anchors array holding the values they held before the call.
C9_TranslatorIsPure ==
    [][(/\ Len(resolution) = 3
        /\ N5AnchorsFromCom \/ N5AnchorsTranslate \/ N5Minc \/ N5Maxc)
          => (attributes' = attributes /\ anchors' = anchors)]_vars

\* what the Coordinate Translator makes of a native 3-tuple t: reversed, each axis
\* scaled by its resolution
Translated(t) == <<t[3] * resolution[3], t[2] * resolution[2], t[1] * resolution[1]>>

\* the anchor columns of output row r
AnchorOf(r) == SubSeq(r, 2, 4)

\* C10 as stated: given external anchors, the output anchor of an object is its
\* translated centre of mass if the supplied anchor is zero on all three axes and
\* the translated supplied anchor otherwise.
C10_MergeOnExactZero ==
    (pc = "returned" /\ anchors_arg.given /\ Len(resolution) = 3) =>
        \A i \in 1..Len(table.rows) :
            LET r == table.rows[i]
                a0 == anchors_arg.arr[r[1] + 1]
            IN  AnchorOf(r) = IF a0 = <<0, 0, 0>>
                                 THEN Translated(SubSeq(RawOf(r), 3, 5))
                                 ELSE Translated(a0)

\* C10 amended: given external anchors, the output anchor of an object is its
\* translated centre of mass if the supplied anchor is within np.isclose's
\* tolerance of zero (|a| <= 1e-8) on all three axes and the translated supplied
\* anchor otherwise; an anchor close to zero on some but not all axes is kept, and
\* the substituted centre of mass is translated once.
C10_MergeOnCloseToZero ==
    (pc = "returned" /\ anchors_arg.given /\ Len(resolution) = 3) =>
        \A i \in 1..Len(table.rows) :
            LET r == table.rows[i]
                a0 == anchors_arg.arr[r[1] + 1]
            IN  AnchorOf(r) = IF \A d \in 1..3 : Abs(a0[d]) <= ATOL
                                 THEN Translated(SubSeq(RawOf(r), 3, 5))
                                 ELSE Translated(a0)

C10_Witness ==
    /\ pc = "returned"
    /\ anchors_arg.given
    /\ Len(resolution) = 3
    /\ resolution[1] # resolution[3]
    /\ Len(table.rows) = 2
    /\ anchors_arg.arr[2] = <<ATOL, 0, ATOL>>
    /\ anchors_arg.arr[3] = <<0, 0, PX>>
    /\ seg.mid > 0

====
